---------------------------- MODULE Spec2Model ----------------------------
(***************************************************************************)
(* Model of the event pipeline (ingest_api, process_worker, query_api)     *)
(* and of the simulator's downtime state machine.                          *)
(*                                                                         *)
(* The Redis stream "events_stream" with its consumer group                *)
(* "processing_group" and the SQLite table processed_events are modelled   *)
(* by the calls the services make on them (xadd, xgroup_create,            *)
(* xreadgroup with the ">" cursor, xack, INSERT OR IGNORE, SELECT).        *)
(*                                                                         *)
(* Specifications:                                                         *)
(*   Spec       one worker replica, producer, outages, kill and restart    *)
(*   SpecCrash  kill and restart only, with fairness                       *)
(*   SpecFaulty outages that end, no kill, with fairness                   *)
(*   SpecLive   no outage and no kill, with fairness                       *)
(*   SpecStore  the table under arbitrary deliveries by any worker         *)
(*   SpecSim    record_downtime under arbitrary observations               *)
(*   SpecLock   record_downtime statement by statement, three threads      *)
(*   SpecRun    one run of the simulator: main, journeys, health thread    *)
(*   SpecLoad   main and the journeys of one run (SpecLoadFair: fair)      *)
(*   SpecReady  the readiness checks under outages of their dependencies   *)
(*   SpecScale  two worker replicas, outages of the store, with fairness   *)
(***************************************************************************)
EXTENDS Integers, Sequences, FiniteSets, TLC

(* ------------------------------ bounds --------------------------------- *)
\* Number of ingest calls that generate an event_id.
MaxEvents == 2
\* Number of stream entries appended by clients other than ingest_api.
MaxForeign == 1
\* Number of dependency outages (Redis or SQLite becoming unreachable).
MaxOutages == 1
\* Number of process kills.
MaxKills == 1
\* Cap of the worker.loop.errors counter of one process.
MaxErrors == 1
\* Last clock value.
MaxTime == 2
\* Number of observations passed to record_downtime.
MaxObs == 4
\* SIM_INGEST_RPS and SIM_DURATION_SECONDS of the modelled run.
SIM_INGEST_RPS == 1
SIM_DURATION_SECONDS == 4
\* Polls of one journey before SIM_POLL_TIMEOUT_SECONDS has elapsed.
MaxPolls == 1
\* Iterations of the health loop.
MaxRounds == 1
\* Whole seconds by which one iteration of the generator loop can start late.
MaxLate == 1

(* ------------------------------ domains -------------------------------- *)
Procs == {"w1", "w2"}
\* The process_worker replica of a single-replica deployment.
Single == {"w1"}
\* Device ids of the events delivered in SpecStore.
AnyDevices == {"d1", "d2"}
EventIds == 1..MaxEvents
Timestamps == {"t1"}
Devices == {"d1"}
Values == {1}
Services == {"ingest-api", "query-api", "functional"}
\* The threads that call record_downtime while the load runs: the health
\* thread and two workers of the executor.
LockThreads == {"health", "worker1", "worker2"}
\* The journeys a run can submit, in the order of submission.
Journeys == 1..(SIM_INGEST_RPS * SIM_DURATION_SECONDS)
\* How requests.request and raise_for_status end.
Outcomes == {"response", "Timeout", "RequestException"}
Statuses == {"processed", "received"}

VARIABLES
    \* Redis
    redisUp,        \* Redis reachable
    stream,         \* events_stream: sequence of entries, entry id = index
    groupExists,    \* processing_group has been created
    lastDelivered,  \* the group's last-delivered id (the ">" cursor)
    pending,        \* the group's pending entries list: set of [id, consumer]
    acked,          \* history: ids for which xack has succeeded
    \* SQLite
    storeState,     \* "ok", "unavailable" (OperationalError), "corrupt" (DatabaseError)
    tableExists,    \* processed_events has been created by init_db
    store,          \* rows of processed_events
    persistLog,     \* history: "inserted" or "ignored", the last committed INSERT OR IGNORE
    \* environment
    outages, kills, foreign, now,
    \* process_worker, per process
    pc, msg, event_data, worker_loop_errors,
    \* ingest_api
    issued,         \* event_ids generated by uuid4 so far
    ingestCalls, ingestReply,
    \* query_api
    statusReply,
    \* simulator
    downtime_tracker,       \* target -> [up, since]
    sim_downtime_seconds,   \* the add() calls on the counter, in order
    obsCount, lastObs,      \* history: calls of record_downtime, the last call
    lastDown                \* history: target -> time of its last UP to DOWN transition

VARIABLES
    \* readiness checks of process_worker (per process) and of query_api
    worker_db_dependency_state,     \* db_dependency_state["up"] of process_worker
    workerReadyReply,               \* the last reply of its /ready
    query_db_dependency_state,      \* db_dependency_state["up"] of query_api
    query_redis_dependency_state,   \* redis_dependency_state["up"] of query_api
    queryReadyReply                 \* the last reply of its /ready

VARIABLES
    \* simulator, record_downtime statement by statement
    downtime_lock,          \* "free" or the thread inside "with downtime_lock"
    rdPc, rdArg,            \* per thread: position in record_downtime, its arguments
    upCycles                \* history: target -> completed DOWN to UP cycles

VARIABLES
    \* simulator, main
    mainPc,                 \* position of main
    main_time,              \* time.time() as read by main, whole seconds since its start
    submitI,                \* range(SIM_INGEST_RPS): tasks submitted in this iteration
    iterations,             \* history: completed iterations of the generator loop
    stop_event,
    \* simulator, executor and journeys
    jPc,                    \* journey -> "new", "queued", "ingest", "poll", "done"
    polls,                  \* journey -> polls that did not end it
    jObs,                   \* history: journey -> observations it fed, in order
    jIngestCalls,           \* history: journey -> ingest calls it issued
    sim_inflight_tests,     \* the up-down counter sim.inflight.tests
    \* simulator, health thread
    healthPc, healthRounds,
    \* simulator, instrumented_request
    lastRequest, reqCount,  \* history: the last sim.client.request.count.add, their number
    downs                   \* history: target -> UP to DOWN transitions

readyVars == <<worker_db_dependency_state, workerReadyReply,
               query_db_dependency_state, query_redis_dependency_state,
               queryReadyReply>>
pipeVars == <<redisUp, stream, groupExists, lastDelivered, pending, acked,
              storeState, tableExists, store, persistLog, outages, kills,
              foreign, pc, msg, event_data, worker_loop_errors, issued,
              ingestCalls, ingestReply, statusReply, readyVars>>
simVars == <<downtime_tracker, sim_downtime_seconds, obsCount, lastObs, lastDown>>
lockVars == <<downtime_lock, rdPc, rdArg, upCycles>>
mainVars == <<mainPc, main_time, submitI, iterations, stop_event>>
journeyVars == <<jPc, polls, jObs, jIngestCalls, sim_inflight_tests>>
healthVars == <<healthPc, healthRounds>>
reqVars == <<lastRequest, reqCount>>
runVars == <<mainVars, journeyVars, healthVars, reqVars, downs>>
extVars == <<lockVars, runVars>>
vars == <<pipeVars, now, simVars, extVars>>

Min(a, b) == IF a <= b THEN a ELSE b

(* --------------------------- serialisation ----------------------------- *)
\* json.dumps of the event dict: the key/value pairs in insertion order.
JsonDumps(d) ==
    << <<"timestamp", d.timestamp>>, <<"device_id", d.device_id>>,
       <<"value", d.value>>, <<"event_id", d.event_id>> >>

\* A payload that json.loads rejects.
Garbage == << <<"junk", "x">> >>

\* json.loads succeeds on the text.
JsonValid(s) == Len(s) = 4

JsonGet(s, k) == s[CHOOSE i \in 1..Len(s) : s[i][1] = k][2]

\* json.loads of a valid text: the dict with the keys of the text.
JsonLoads(s) ==
    [timestamp |-> JsonGet(s, "timestamp"), device_id |-> JsonGet(s, "device_id"),
     value |-> JsonGet(s, "value"), event_id |-> JsonGet(s, "event_id")]

NoMsg == [id |-> 0, data |-> <<>>]
NoEvent == [timestamp |-> "", device_id |-> "", value |-> 0, event_id |-> 0]
NoReply == [status |-> 0, event_id |-> 0]
NoStatus == [event_id |-> 0, status |-> "none"]

\* No readiness check has been answered.  A reply keeps the details of the
\* one before it (prev) and a bit that changes with every check (seq).
NoReady == [code |-> 0, details |-> "none", prev |-> "none", seq |-> 0]

(* ------------------------------- store --------------------------------- *)
HasRow(s, eid) == \E r \in s : r.event_id = eid

\* Variant of the statement, INSERT OR REPLACE: a conflicting row is replaced.
InsertOrReplace(s, ev, t) ==
    {r \in s : r.event_id # ev.event_id}
        \cup {[event_id |-> ev.event_id, timestamp |-> ev.timestamp,
               device_id |-> ev.device_id, value |-> ev.value,
               processed_at |-> t]}

\* INSERT OR IGNORE INTO processed_events (event_id, timestamp, device_id,
\* value) with processed_at DEFAULT CURRENT_TIMESTAMP and event_id the
\* primary key: a conflicting insert is ignored.
InsertOrIgnore(s, ev, t) ==
    IF HasRow(s, ev.event_id) THEN s
    ELSE s \cup {[event_id |-> ev.event_id, timestamp |-> ev.timestamp,
                  device_id |-> ev.device_id, value |-> ev.value,
                  processed_at |-> t]}

\* The connect / execute / commit block of the worker succeeds.
StoreWritable == storeState = "ok" /\ tableExists

\* Variant of the persistence step without conn.commit(): closing the
\* connection rolls the insert back.
PersistEventNoCommit(ev) ==
    /\ StoreWritable
    /\ store' = store
    /\ persistLog' = IF HasRow(store, ev.event_id) THEN "ignored" ELSE "inserted"

\* The persistence step of the worker on the event ev, committed.
PersistEvent(ev) ==
    /\ StoreWritable
    /\ store' = InsertOrIgnore(store, ev, now)
    /\ persistLog' = IF HasRow(store, ev.event_id) THEN "ignored" ELSE "inserted"

(* ------------------------------- Init ---------------------------------- *)
Init ==
    /\ redisUp = TRUE
    /\ stream = <<>>
    /\ groupExists = FALSE
    /\ lastDelivered = 0
    /\ pending = {}
    /\ acked = {}
    /\ storeState = "ok"
    /\ tableExists = FALSE
    /\ store = {}
    /\ persistLog = "none"
    /\ outages = 0
    /\ kills = 0
    /\ foreign = 0
    /\ now = 0
    /\ pc = [p \in Procs |-> "boot"]
    /\ msg = [p \in Procs |-> NoMsg]
    /\ event_data = [p \in Procs |-> NoEvent]
    /\ worker_loop_errors = [p \in Procs |-> 0]
    /\ issued = {}
    /\ ingestCalls = 0
    /\ ingestReply = NoReply
    /\ statusReply = NoStatus
    /\ downtime_tracker = [s \in Services |-> [up |-> TRUE, since |-> 0]]
    /\ sim_downtime_seconds = <<>>
    /\ obsCount = 0
    /\ lastObs = [service |-> "none", is_down |-> FALSE, t1 |-> 0, t2 |-> 0]
    /\ lastDown = [s \in Services |-> 0]
    /\ worker_db_dependency_state = [p \in Procs |-> 0]
    /\ workerReadyReply = [p \in Procs |-> NoReady]
    /\ query_db_dependency_state = 0
    /\ query_redis_dependency_state = 0
    /\ queryReadyReply = NoReady
    /\ downtime_lock = "free"
    /\ rdPc = [t \in LockThreads |-> "idle"]
    /\ rdArg = [t \in LockThreads |-> [service |-> "none", is_down |-> FALSE]]
    /\ upCycles = [s \in Services |-> 0]
    /\ mainPc = "start"
    /\ main_time = 0
    /\ submitI = 0
    /\ iterations = 0
    /\ stop_event = FALSE
    /\ jPc = [j \in Journeys |-> "new"]
    /\ polls = [j \in Journeys |-> 0]
    /\ jObs = [j \in Journeys |-> <<>>]
    /\ jIngestCalls = [j \in Journeys |-> 0]
    /\ sim_inflight_tests = 0
    /\ healthPc = "off"
    /\ healthRounds = 0
    /\ lastRequest = [target_service |-> "none", endpoint |-> "none",
                      result |-> "none", raised |-> FALSE, status |-> "none"]
    /\ reqCount = 0
    /\ downs = [s \in Services |-> 0]


(* --------------------------- environment ------------------------------- *)
RedisFail ==
    /\ redisUp /\ outages < MaxOutages
    /\ redisUp' = FALSE
    /\ outages' = outages + 1
    /\ UNCHANGED <<stream, groupExists, lastDelivered, pending, acked, storeState,
                   tableExists, store, persistLog, kills, foreign, pc, msg,
                   event_data, worker_loop_errors, issued, ingestCalls,
                   ingestReply, statusReply, now, simVars, readyVars, extVars>>

RedisRecover ==
    /\ ~redisUp
    /\ redisUp' = TRUE
    /\ UNCHANGED <<stream, groupExists, lastDelivered, pending, acked, storeState,
                   tableExists, store, persistLog, outages, kills, foreign, pc,
                   msg, event_data, worker_loop_errors, issued, ingestCalls,
                   ingestReply, statusReply, now, simVars, readyVars, extVars>>

\* The database file becomes unusable: sqlite3 raises OperationalError
\* ("unable to open database file") or, for a file that is not a database,
\* DatabaseError.
StoreFail ==
    /\ storeState = "ok" /\ outages < MaxOutages
    /\ storeState' \in {"unavailable", "corrupt"}
    /\ outages' = outages + 1
    /\ UNCHANGED <<redisUp, stream, groupExists, lastDelivered, pending, acked,
                   tableExists, store, persistLog, kills, foreign, pc, msg,
                   event_data, worker_loop_errors, issued, ingestCalls,
                   ingestReply, statusReply, now, simVars, readyVars, extVars>>

StoreRecover ==
    /\ storeState # "ok"
    /\ storeState' = "ok"
    /\ UNCHANGED <<redisUp, stream, groupExists, lastDelivered, pending, acked,
                   tableExists, store, persistLog, outages, kills, foreign, pc,
                   msg, event_data, worker_loop_errors, issued, ingestCalls,
                   ingestReply, statusReply, now, simVars, readyVars, extVars>>

Tick ==
    /\ now < MaxTime
    /\ now' = now + 1
    /\ UNCHANGED <<pipeVars, simVars, extVars>>

\* A client other than ingest_api appends an entry whose data is not JSON.
ForeignAppend ==
    /\ redisUp /\ foreign < MaxForeign
    /\ foreign' = foreign + 1
    /\ stream' = Append(stream, [data |-> Garbage])
    /\ UNCHANGED <<redisUp, groupExists, lastDelivered, pending, acked, storeState,
                   tableExists, store, persistLog, outages, kills, pc, msg,
                   event_data, worker_loop_errors, issued, ingestCalls,
                   ingestReply, statusReply, now, simVars, readyVars, extVars>>

\* The process is killed (SIGKILL, container removed): its memory is lost.
Kill(p) ==
    /\ pc[p] # "down" /\ kills < MaxKills
    /\ kills' = kills + 1
    /\ pc' = [pc EXCEPT ![p] = "down"]
    /\ msg' = [msg EXCEPT ![p] = NoMsg]
    /\ event_data' = [event_data EXCEPT ![p] = NoEvent]
    /\ worker_loop_errors' = [worker_loop_errors EXCEPT ![p] = 0]
    /\ UNCHANGED <<redisUp, stream, groupExists, lastDelivered, pending, acked,
                   storeState, tableExists, store, persistLog, outages, foreign,
                   issued, ingestCalls, ingestReply, statusReply, now, simVars, readyVars, extVars>>

Restart(p) ==
    /\ pc[p] = "down"
    /\ pc' = [pc EXCEPT ![p] = "boot"]
    /\ UNCHANGED <<redisUp, stream, groupExists, lastDelivered, pending, acked,
                   storeState, tableExists, store, persistLog, outages, kills,
                   foreign, msg, event_data, worker_loop_errors, issued,
                   ingestCalls, ingestReply, statusReply, now, simVars, readyVars, extVars>>

(* --------------------------- process_worker ---------------------------- *)
\* __main__: init_db() before the worker thread is started.  An exception of
\* init_db ends the process.
WorkerBoot(p) ==
    /\ pc[p] = "boot"
    /\ IF storeState = "ok"
       THEN /\ tableExists' = TRUE
            /\ pc' = [pc EXCEPT ![p] = "start"]
       ELSE /\ pc' = [pc EXCEPT ![p] = "down"]
            /\ UNCHANGED tableExists
    /\ UNCHANGED <<redisUp, stream, groupExists, lastDelivered, pending, acked,
                   storeState, store, persistLog, outages, kills, foreign, msg,
                   event_data, worker_loop_errors, issued, ingestCalls,
                   ingestReply, statusReply, now, simVars, readyVars, extVars>>

\* Variant of the start that re-raises every failure of xgroup_create, the
\* one of an existing group included.
WorkerStartStrict(p) ==
    /\ pc[p] = "start"
    /\ IF redisUp /\ ~groupExists
       THEN /\ pc' = [pc EXCEPT ![p] = "read"]
            /\ groupExists' = TRUE /\ lastDelivered' = 0
       ELSE /\ pc' = [pc EXCEPT ![p] = "dead"]
            /\ UNCHANGED <<groupExists, lastDelivered>>
    /\ UNCHANGED <<redisUp, stream, pending, acked, storeState, tableExists, store,
                   persistLog, outages, kills, foreign, msg, event_data,
                   worker_loop_errors, issued, ingestCalls, ingestReply,
                   statusReply, now, simVars, readyVars, extVars>>

\* xgroup_create("events_stream", group_name, id="0", mkstream=True).  The
\* ResponseError "already exists" is swallowed; a connection error is not a
\* ResponseError and ends the worker thread.
WorkerStart(p) ==
    /\ pc[p] = "start"
    /\ IF redisUp
       THEN /\ pc' = [pc EXCEPT ![p] = "read"]
            /\ IF groupExists
               THEN UNCHANGED <<groupExists, lastDelivered>>
               ELSE groupExists' = TRUE /\ lastDelivered' = 0
       ELSE /\ pc' = [pc EXCEPT ![p] = "dead"]
            /\ UNCHANGED <<groupExists, lastDelivered>>
    /\ UNCHANGED <<redisUp, stream, pending, acked, storeState, tableExists, store,
                   persistLog, outages, kills, foreign, msg, event_data,
                   worker_loop_errors, issued, ingestCalls, ingestReply,
                   statusReply, now, simVars, readyVars, extVars>>

\* Variant of the handler that re-raises: the thread ends.
ExceptHandlerReraise(p) ==
    /\ worker_loop_errors[p] < MaxErrors
    /\ worker_loop_errors' = [worker_loop_errors EXCEPT ![p] = @ + 1]
    /\ pc' = [pc EXCEPT ![p] = "dead"]
    /\ msg' = [msg EXCEPT ![p] = NoMsg]
    /\ event_data' = [event_data EXCEPT ![p] = NoEvent]

\* except Exception: worker_loop_errors.add(1); print; time.sleep(1).
\* The locals of the iteration are dead from here on.
ExceptHandler(p) ==
    /\ worker_loop_errors[p] < MaxErrors
    /\ worker_loop_errors' = [worker_loop_errors EXCEPT ![p] = @ + 1]
    /\ pc' = [pc EXCEPT ![p] = "backoff"]
    /\ msg' = [msg EXCEPT ![p] = NoMsg]
    /\ event_data' = [event_data EXCEPT ![p] = NoEvent]

\* xreadgroup(group_name, consumer_name, {"events_stream": ">"}, count=1,
\* block=1000): the first entry never delivered to the group, which enters
\* the pending list under this consumer; nothing when there is none.
WorkerRead(p) ==
    /\ pc[p] = "read"
    /\ IF redisUp
       THEN IF lastDelivered < Len(stream)
            THEN /\ lastDelivered' = lastDelivered + 1
                 /\ pending' = pending \cup {[id |-> lastDelivered + 1, consumer |-> p]}
                 /\ msg' = [msg EXCEPT ![p] = [id |-> lastDelivered + 1,
                                               data |-> stream[lastDelivered + 1].data]]
                 /\ pc' = [pc EXCEPT ![p] = "parse"]
                 /\ UNCHANGED <<event_data, worker_loop_errors>>
            ELSE UNCHANGED <<lastDelivered, pending, msg, pc, event_data,
                             worker_loop_errors>>
       ELSE /\ ExceptHandler(p)
            /\ UNCHANGED <<lastDelivered, pending>>
    /\ UNCHANGED <<redisUp, stream, groupExists, acked, storeState, tableExists,
                   store, persistLog, outages, kills, foreign, issued,
                   ingestCalls, ingestReply, statusReply, now, simVars, readyVars, extVars>>

\* event_data = json.loads(data[b"data"])
WorkerParse(p) ==
    /\ pc[p] = "parse"
    /\ IF JsonValid(msg[p].data)
       THEN /\ event_data' = [event_data EXCEPT ![p] = JsonLoads(msg[p].data)]
            /\ pc' = [pc EXCEPT ![p] = "persist"]
            /\ UNCHANGED <<msg, worker_loop_errors>>
       ELSE ExceptHandler(p)
    /\ UNCHANGED <<redisUp, stream, groupExists, lastDelivered, pending, acked,
                   storeState, tableExists, store, persistLog, outages, kills,
                   foreign, issued, ingestCalls, ingestReply, statusReply, now,
                   simVars, readyVars, extVars>>

\* Variant of the persistence step that swallows the exception of the
\* insert and goes on to the acknowledgment.
WorkerPersistSwallow(p) ==
    /\ pc[p] = "persist"
    /\ pc' = [pc EXCEPT ![p] = "ack"]
    /\ IF StoreWritable
       THEN PersistEvent(event_data[p])
       ELSE UNCHANGED <<store, persistLog>>
    /\ UNCHANGED <<msg, event_data, worker_loop_errors>>
    /\ UNCHANGED <<redisUp, stream, groupExists, lastDelivered, pending, acked,
                   storeState, tableExists, outages, kills, foreign, issued,
                   ingestCalls, ingestReply, statusReply, now, simVars, readyVars, extVars>>

\* with sqlite3.connect(DB_PATH): INSERT OR IGNORE ...; conn.commit()
WorkerPersist(p) ==
    /\ pc[p] = "persist"
    /\ IF StoreWritable
       THEN /\ PersistEvent(event_data[p])
            /\ pc' = [pc EXCEPT ![p] = "ack"]
            /\ UNCHANGED <<msg, event_data, worker_loop_errors>>
       ELSE /\ ExceptHandler(p)
            /\ UNCHANGED <<store, persistLog>>
    /\ UNCHANGED <<redisUp, stream, groupExists, lastDelivered, pending, acked,
                   storeState, tableExists, outages, kills, foreign, issued,
                   ingestCalls, ingestReply, statusReply, now, simVars, readyVars, extVars>>

\* redis_client.xack("events_stream", group_name, msg_id)
WorkerAck(p) ==
    /\ pc[p] = "ack"
    /\ IF redisUp
       THEN /\ pending' = {e \in pending : e.id # msg[p].id}
            /\ acked' = acked \cup {msg[p].id}
            /\ pc' = [pc EXCEPT ![p] = "read"]
            /\ msg' = [msg EXCEPT ![p] = NoMsg]
            /\ event_data' = [event_data EXCEPT ![p] = NoEvent]
            /\ UNCHANGED worker_loop_errors
       ELSE /\ ExceptHandler(p)
            /\ UNCHANGED <<pending, acked>>
    /\ UNCHANGED <<redisUp, stream, groupExists, lastDelivered, storeState,
                   tableExists, store, persistLog, outages, kills, foreign,
                   issued, ingestCalls, ingestReply, statusReply, now, simVars, readyVars, extVars>>

\* time.sleep(1) of the handler is over: next iteration of while True.
WorkerBackoff(p) ==
    /\ pc[p] = "backoff"
    /\ pc' = [pc EXCEPT ![p] = "read"]
    /\ UNCHANGED <<redisUp, stream, groupExists, lastDelivered, pending, acked,
                   storeState, tableExists, store, persistLog, outages, kills,
                   foreign, msg, event_data, worker_loop_errors, issued,
                   ingestCalls, ingestReply, statusReply, now, simVars, readyVars, extVars>>

\* The persistence step of some worker for a delivery or redelivery of any
\* event: the block of lines 83-89 applied to an arbitrary event_data.
Persist ==
    \E ev \in [timestamp : Timestamps, device_id : AnyDevices, value : Values,
               event_id : EventIds] :
        /\ PersistEvent(ev)
        /\ UNCHANGED <<redisUp, stream, groupExists, lastDelivered, pending, acked,
                       storeState, tableExists, outages, kills, foreign, pc, msg,
                       event_data, worker_loop_errors, issued, ingestCalls,
                       ingestReply, statusReply, now, simVars, readyVars, extVars>>

(* ------------------------------ ingest_api ----------------------------- *)
\* Variant of the handler that catches the exception of xadd and answers 202.
ingest_event_swallow(ev, eid) ==
    /\ eid \notin issued
    /\ issued' = issued \cup {eid}
    /\ ingestCalls' = ingestCalls + 1
    /\ IF redisUp
       THEN stream' = Append(stream, [data |-> JsonDumps(
                   [timestamp |-> ev.timestamp, device_id |-> ev.device_id,
                    value |-> ev.value, event_id |-> eid])])
       ELSE UNCHANGED stream
    /\ ingestReply' = [status |-> 202, event_id |-> eid]
    /\ UNCHANGED <<redisUp, groupExists, lastDelivered, pending, acked, storeState,
                   tableExists, store, persistLog, outages, kills, foreign, pc,
                   msg, event_data, worker_loop_errors, statusReply, now, simVars, readyVars, extVars>>

\* POST /ingest: event_id = str(uuid.uuid4()) is an id never generated
\* before; xadd either appends the entry or raises, and then the request
\* ends with a server error and no body.
ingest_event(ev, eid) ==
    /\ eid \notin issued
    /\ issued' = issued \cup {eid}
    /\ ingestCalls' = ingestCalls + 1
    /\ IF redisUp
       THEN /\ stream' = Append(stream, [data |-> JsonDumps(
                   [timestamp |-> ev.timestamp, device_id |-> ev.device_id,
                    value |-> ev.value, event_id |-> eid])])
            /\ ingestReply' = [status |-> 202, event_id |-> eid]
       ELSE /\ UNCHANGED stream
            /\ ingestReply' = [status |-> 500, event_id |-> 0]
    /\ UNCHANGED <<redisUp, groupExists, lastDelivered, pending, acked, storeState,
                   tableExists, store, persistLog, outages, kills, foreign, pc,
                   msg, event_data, worker_loop_errors, statusReply, now, simVars, readyVars, extVars>>

Ingest ==
    \E ev \in [timestamp : Timestamps, device_id : Devices, value : Values],
       eid \in EventIds : ingest_event(ev, eid)

(* ------------------------------ query_api ------------------------------ *)
\* SELECT event_id FROM processed_events WHERE event_id = ? on a fresh
\* connection: the row, no row, or the exception sqlite3 raises.
SelectOutcome(eid) ==
    CASE storeState = "corrupt" -> "DatabaseError"
      [] storeState = "unavailable" -> "OperationalError"
      [] storeState = "ok" /\ ~tableExists -> "OperationalError"
      [] storeState = "ok" /\ tableExists ->
            IF HasRow(store, eid) THEN "row" ELSE "none"

\* Variant of the handler that answers received whenever the select does
\* not raise.
get_status_no_row(eid) ==
    CASE SelectOutcome(eid) = "row" -> "received"
      [] SelectOutcome(eid) = "OperationalError" -> "unknown"
      [] SelectOutcome(eid) = "DatabaseError" -> "raise"
      [] SelectOutcome(eid) = "none" -> "received"

\* GET /status/{event_id}: only sqlite3.OperationalError is caught; any
\* other exception leaves the handler ("raise").
get_status(eid) ==
    CASE SelectOutcome(eid) = "row" -> "processed"
      [] SelectOutcome(eid) = "OperationalError" -> "unknown"
      [] SelectOutcome(eid) = "DatabaseError" -> "raise"
      [] SelectOutcome(eid) = "none" -> "received"

GetStatus ==
    \E eid \in EventIds :
        /\ statusReply' = [event_id |-> eid, status |-> get_status(eid)]
        /\ UNCHANGED <<redisUp, stream, groupExists, lastDelivered, pending, acked,
                       storeState, tableExists, store, persistLog, outages, kills,
                       foreign, pc, msg, event_data, worker_loop_errors, issued,
                       ingestCalls, ingestReply, now, simVars, readyVars, extVars>>

(* ------------------------------ readiness ------------------------------ *)
\* An outage of Redis or of the database file, any number of times.
RedisOutage ==
    /\ redisUp
    /\ redisUp' = FALSE
    /\ UNCHANGED <<stream, groupExists, lastDelivered, pending, acked, storeState,
                   tableExists, store, persistLog, outages, kills, foreign, pc, msg,
                   event_data, worker_loop_errors, issued, ingestCalls,
                   ingestReply, statusReply, now, simVars, readyVars, extVars>>

StoreOutage ==
    /\ storeState = "ok"
    /\ storeState' \in {"unavailable", "corrupt"}
    /\ UNCHANGED <<redisUp, stream, groupExists, lastDelivered, pending, acked,
                   tableExists, store, persistLog, outages, kills, foreign, pc, msg,
                   event_data, worker_loop_errors, issued, ingestCalls,
                   ingestReply, statusReply, now, simVars, readyVars, extVars>>

\* sqlite3.connect and SELECT 1 of a readiness check: they raise when the
\* file cannot be opened; SELECT 1 does not read the file, so that a file
\* that is not a database passes.
SelectOne == IF storeState = "unavailable" THEN "raise" ELSE "ok"

\* readiness_check of process_worker: the status code and the details.
worker_readiness ==
    IF SelectOne = "ok"
    THEN [code |-> 200, details |-> "ok"]
    ELSE [code |-> 503, details |-> "Database not reachable"]

\* Variant of the readiness check of query_api that does not ping Redis.
query_readiness_db_only ==
    IF SelectOne # "ok"
    THEN [code |-> 503, details |-> "Database not reachable"]
    ELSE [code |-> 200, details |-> "ok"]

\* readiness_check of query_api: the database first, then the ping of Redis.
query_readiness ==
    IF SelectOne # "ok"
    THEN [code |-> 503, details |-> "Database not reachable"]
    ELSE IF ~redisUp
         THEN [code |-> 503, details |-> "Redis not reachable"]
         ELSE [code |-> 200, details |-> "ok"]

\* The reply r of a readiness check, after the reply old.
ReadyReply(r, old) ==
    [code |-> r.code, details |-> r.details, prev |-> old.details, seq |-> 1 - old.seq]

\* GET /ready of process_worker p.
WorkerReady(p) ==
    /\ pc[p] \notin {"boot", "down"}
    /\ worker_db_dependency_state' =
           [worker_db_dependency_state EXCEPT ![p] = IF SelectOne = "ok" THEN 1 ELSE 0]
    /\ workerReadyReply' =
           [workerReadyReply EXCEPT ![p] = ReadyReply(worker_readiness, @)]
    /\ UNCHANGED <<redisUp, stream, groupExists, lastDelivered, pending, acked,
                   storeState, tableExists, store, persistLog, outages, kills,
                   foreign, pc, msg, event_data, worker_loop_errors, issued,
                   ingestCalls, ingestReply, statusReply, now, simVars, extVars,
                   query_db_dependency_state, query_redis_dependency_state,
                   queryReadyReply>>

\* GET /ready of query_api.  A failure of the database check returns before
\* the ping of Redis.
QueryReady ==
    /\ query_db_dependency_state' = IF SelectOne = "ok" THEN 1 ELSE 0
    /\ query_redis_dependency_state' =
           IF SelectOne # "ok" THEN query_redis_dependency_state
           ELSE IF redisUp THEN 1 ELSE 0
    /\ queryReadyReply' = ReadyReply(query_readiness, queryReadyReply)
    /\ UNCHANGED <<redisUp, stream, groupExists, lastDelivered, pending, acked,
                   storeState, tableExists, store, persistLog, outages, kills,
                   foreign, pc, msg, event_data, worker_loop_errors, issued,
                   ingestCalls, ingestReply, statusReply, now, simVars, extVars,
                   worker_db_dependency_state, workerReadyReply>>

\* The readiness checks of the two services under outages of their
\* dependencies.
NextReady ==
    \/ RedisOutage \/ RedisRecover \/ StoreOutage \/ StoreRecover
    \/ \E p \in Single : WorkerBoot(p) \/ Restart(p) \/ WorkerReady(p)
    \/ QueryReady

SpecReady == Init /\ [][NextReady]_vars

(* ------------------------------ simulator ------------------------------ *)
Reason(service) == IF service # "functional" THEN "health_fail" ELSE "functional_fail"

\* Variant of the transition that keeps the old since when going DOWN.
TrackerAfterStaleSince(state, is_down, t1, t2) ==
    IF is_down /\ state.up
    THEN [up |-> FALSE, since |-> state.since]
    ELSE IF ~is_down /\ ~state.up
         THEN [up |-> TRUE, since |-> t2]
         ELSE state

\* The entry of downtime_tracker after record_downtime(service, is_down):
\* t1 is the first time.time() of the call, t2 the second one of the
\* transition to UP.
TrackerAfter(state, is_down, t1, t2) ==
    IF is_down /\ state.up
    THEN [up |-> FALSE, since |-> t1]
    ELSE IF ~is_down /\ ~state.up
         THEN [up |-> TRUE, since |-> t2]
         ELSE state

\* Variant of the measurement that is emitted on every success observation.
DowntimeAddedAlways(service, state, is_down, t1) ==
    IF ~is_down
    THEN << [target_service |-> service, reason |-> Reason(service),
             duration |-> t1 - state.since] >>
    ELSE << >>

\* Variant of the measurement that counts from the start of the simulator.
DowntimeAddedFromStart(service, state, is_down, t1) ==
    IF ~is_down /\ ~state.up
    THEN << [target_service |-> service, reason |-> Reason(service),
             duration |-> t1] >>
    ELSE << >>

\* The sim_downtime_seconds.add(duration, attributes) calls of
\* record_downtime(service, is_down).
DowntimeAdded(service, state, is_down, t1) ==
    IF ~is_down /\ ~state.up
    THEN << [target_service |-> service, reason |-> Reason(service),
             duration |-> t1 - state.since] >>
    ELSE << >>

\* record_downtime(service, is_down), under downtime_lock.
record_downtime(service, is_down) ==
    \E t2 \in now..Min(now + 1, MaxTime) :
        LET state == downtime_tracker[service]
            up2 == ~is_down /\ ~state.up
            t2r == IF up2 THEN t2 ELSE now
        IN /\ downtime_tracker' =
                  [downtime_tracker EXCEPT ![service] = TrackerAfter(state, is_down, now, t2r)]
           /\ sim_downtime_seconds' =
                  sim_downtime_seconds \o DowntimeAdded(service, state, is_down, now)
           /\ now' = t2r
           /\ lastObs' = [service |-> service, is_down |-> is_down, t1 |-> now, t2 |-> t2r]
           /\ lastDown' = IF is_down /\ state.up
                          THEN [lastDown EXCEPT ![service] = now]
                          ELSE lastDown

\* One observation of one target, from the health probe or from a journey.
Observe ==
    /\ obsCount < MaxObs
    /\ obsCount' = obsCount + 1
    /\ \E service \in Services, is_down \in BOOLEAN : record_downtime(service, is_down)
    /\ UNCHANGED <<pipeVars, extVars>>

NextSim == Observe \/ Tick

SpecSim == Init /\ [][NextSim]_vars

(* ------------------- record_downtime, statement by statement ----------- *)
\* The targets a thread observes: the health thread probes the two APIs, a
\* worker of the executor runs journeys.
TargetsOf(t) == IF t = "health" THEN {"ingest-api", "query-api"} ELSE {"functional"}

\* Variant of the entry into record_downtime without the lock.
LockIgnored == TRUE

\* "with downtime_lock": the block is entered when no thread is inside.
LockFree == downtime_lock = "free"

\* The branch of record_downtime taken for (is_down, state["up"]).
Branch(state, is_down) ==
    IF is_down /\ state.up THEN "to_down"
    ELSE IF ~is_down /\ ~state.up THEN "to_up"
    ELSE "skip"

\* Thread t calls record_downtime(service, is_down) and acquires the lock.
RdEnter(t) ==
    /\ rdPc[t] = "idle" /\ obsCount < MaxObs
    /\ LockFree
    /\ \E service \in TargetsOf(t), is_down \in BOOLEAN :
           rdArg' = [rdArg EXCEPT ![t] = [service |-> service, is_down |-> is_down]]
    /\ downtime_lock' = t
    /\ rdPc' = [rdPc EXCEPT ![t] = "locked"]
    /\ obsCount' = obsCount + 1
    /\ UNCHANGED <<pipeVars, runVars, now, downtime_tracker, sim_downtime_seconds, lastObs,
                   lastDown, upCycles>>

\* The two tests of state["up"].
RdTest(t) ==
    /\ rdPc[t] = "locked"
    /\ rdPc' = [rdPc EXCEPT ![t] =
                   Branch(downtime_tracker[rdArg[t].service], rdArg[t].is_down)]
    /\ UNCHANGED <<pipeVars, runVars, now, simVars, downtime_lock, rdArg, upCycles>>

\* The branch UP to DOWN, and the release of the lock.
RdGoDown(t) ==
    /\ rdPc[t] = "to_down"
    /\ downtime_tracker' = [downtime_tracker EXCEPT
                               ![rdArg[t].service] = [up |-> FALSE, since |-> now]]
    /\ lastDown' = [lastDown EXCEPT ![rdArg[t].service] = now]
    /\ downtime_lock' = "free"
    /\ rdPc' = [rdPc EXCEPT ![t] = "idle"]
    /\ UNCHANGED <<pipeVars, runVars, now, sim_downtime_seconds, obsCount, lastObs, rdArg,
                   upCycles>>

\* The branch DOWN to UP: the duration is computed and emitted, the target
\* is set UP, the lock is released.
RdGoUp(t) ==
    /\ rdPc[t] = "to_up"
    /\ \E t2 \in now..Min(now + 1, MaxTime) :
        LET service == rdArg[t].service
            state == downtime_tracker[service]
        IN /\ sim_downtime_seconds' = Append(sim_downtime_seconds,
                   [target_service |-> service, reason |-> Reason(service),
                    duration |-> now - state.since])
           /\ downtime_tracker' = [downtime_tracker EXCEPT
                                      ![service] = [up |-> TRUE, since |-> t2]]
           /\ upCycles' = IF state.up THEN upCycles
                          ELSE [upCycles EXCEPT ![service] = @ + 1]
           /\ now' = t2
    /\ downtime_lock' = "free"
    /\ rdPc' = [rdPc EXCEPT ![t] = "idle"]
    /\ UNCHANGED <<pipeVars, runVars, obsCount, lastObs, lastDown, rdArg>>

\* Neither branch: the lock is released.
RdSkip(t) ==
    /\ rdPc[t] = "skip"
    /\ downtime_lock' = "free"
    /\ rdPc' = [rdPc EXCEPT ![t] = "idle"]
    /\ UNCHANGED <<pipeVars, runVars, now, simVars, rdArg, upCycles>>

\* The health thread and the workers of the executor, each calling
\* record_downtime for its targets.
NextLock ==
    \/ \E t \in LockThreads : RdEnter(t)
    \/ \E t \in LockThreads : RdTest(t)
    \/ \E t \in LockThreads : RdGoDown(t)
    \/ \E t \in LockThreads : RdGoUp(t)
    \/ \E t \in LockThreads : RdSkip(t)
    \/ Tick

SpecLock == Init /\ [][NextLock]_vars

(* -------------------------- simulator, one run ------------------------- *)
\* Variant of the classification that leaves every result "ok".
ResultAlwaysOk(outcome) == "ok"

\* instrumented_request: the result label of the request counter.
Result(outcome) ==
    IF outcome = "Timeout" THEN "timeout"
    ELSE IF outcome = "RequestException" THEN "error"
    ELSE "ok"

\* instrumented_request, finally: the request is counted with its result.
\* The history keeps whether the call raised and the status of the response.
Request(target_service, endpoint, outcome, status) ==
    /\ lastRequest' = [target_service |-> target_service, endpoint |-> endpoint,
                       result |-> Result(outcome), raised |-> outcome # "response",
                       status |-> IF outcome = "response" THEN status ELSE "none"]
    /\ reqCount' = reqCount + 1

\* A call of record_downtime(service, is_down) by a thread of the run.
Feed(service, is_down) ==
    /\ record_downtime(service, is_down)
    /\ obsCount' = obsCount + 1
    /\ downs' = IF is_down /\ downtime_tracker[service].up
                THEN [downs EXCEPT ![service] = @ + 1]
                ELSE downs

NoFeed == UNCHANGED <<now, simVars, downs>>

Submitted == {j \in Journeys : jPc[j] # "new"}
InFlight == {j \in Journeys : jPc[j] \in {"ingest", "poll"}}

\* main: the health thread is started, the executor is created and the end
\* of the simulation is computed.
MainStart ==
    /\ mainPc = "start"
    /\ mainPc' = "loop"
    /\ healthPc' = "check"
    /\ UNCHANGED <<pipeVars, now, simVars, lockVars, main_time, submitI, iterations,
                   stop_event, journeyVars, healthRounds, reqVars, downs>>

\* while time.time() < simulation_end_time
MainLoop ==
    /\ mainPc = "loop"
    /\ IF main_time < SIM_DURATION_SECONDS
       THEN mainPc' = "submit" /\ submitI' = 0
       ELSE mainPc' = "stop" /\ UNCHANGED submitI
    /\ UNCHANGED <<pipeVars, now, simVars, lockVars, main_time, iterations, stop_event,
                   journeyVars, healthVars, reqVars, downs>>

\* executor.submit(functional_test_worker), once per value of the range.
MainSubmit ==
    /\ mainPc = "submit" /\ submitI < SIM_INGEST_RPS
    /\ jPc' = [jPc EXCEPT ![Cardinality(Submitted) + 1] = "queued"]
    /\ submitI' = submitI + 1
    /\ UNCHANGED <<pipeVars, now, simVars, lockVars, mainPc, main_time, iterations,
                   stop_event, polls, jObs, jIngestCalls, sim_inflight_tests,
                   healthVars, reqVars, downs>>

\* time.sleep(max(0, 1.0 - elapsed)): the sleep ends no earlier than asked.
\* The next iteration starts in the next second, or later when the lateness
\* of the iterations so far adds up to one more second.
MainSleep ==
    /\ mainPc = "submit" /\ submitI = SIM_INGEST_RPS
    /\ \E d \in 1..(1 + MaxLate) : main_time' = main_time + d
    /\ iterations' = iterations + 1
    /\ mainPc' = "loop"
    /\ UNCHANGED <<pipeVars, now, simVars, lockVars, submitI, stop_event, journeyVars,
                   healthVars, reqVars, downs>>

\* stop_event.set()
MainStop ==
    /\ mainPc = "stop"
    /\ stop_event' = TRUE
    /\ mainPc' = "shutdown"
    /\ UNCHANGED <<pipeVars, now, simVars, lockVars, main_time, submitI, iterations,
                   journeyVars, healthVars, reqVars, downs>>

\* Variant of the shutdown that does not wait: executor.shutdown(wait=False).
ShutdownNoWait == TRUE

\* executor.shutdown(wait=True) returns when every submitted task has run.
ShutdownReturns == \A j \in Submitted : jPc[j] = "done"

MainShutdown ==
    /\ mainPc = "shutdown"
    /\ ShutdownReturns
    /\ mainPc' = "flush_ingest"
    /\ UNCHANGED <<pipeVars, now, simVars, lockVars, main_time, submitI, iterations,
                   stop_event, journeyVars, healthVars, reqVars, downs>>

\* The final flush: record_downtime(target, is_down=False) for the three
\* targets, then main returns.
MainFlush ==
    /\ mainPc \in {"flush_ingest", "flush_query", "flush_functional"}
    /\ \/ mainPc = "flush_ingest" /\ Feed("ingest-api", FALSE) /\ mainPc' = "flush_query"
       \/ mainPc = "flush_query" /\ Feed("query-api", FALSE) /\ mainPc' = "flush_functional"
       \/ mainPc = "flush_functional" /\ Feed("functional", FALSE) /\ mainPc' = "finished"
    /\ UNCHANGED <<pipeVars, lockVars, main_time, submitI, iterations, stop_event,
                   journeyVars, healthVars, reqVars>>

\* Variant of the executor without max_workers.
WorkerUnbounded == TRUE

\* ThreadPoolExecutor(max_workers=SIM_INGEST_RPS * 2): a queued task starts
\* when fewer than max_workers tasks are running.
WorkerAvailable == Cardinality(InFlight) < SIM_INGEST_RPS * 2

\* A worker of the pool takes the oldest queued task: sim_inflight_tests.add(1).
JourneyStart(j) ==
    /\ jPc[j] = "queued"
    /\ \A i \in Journeys : i < j => jPc[i] # "queued"
    /\ WorkerAvailable
    /\ jPc' = [jPc EXCEPT ![j] = "ingest"]
    /\ sim_inflight_tests' = sim_inflight_tests + 1
    /\ UNCHANGED <<pipeVars, now, simVars, lockVars, mainVars, polls, jObs,
                   jIngestCalls, healthVars, reqVars, downs>>

\* The ingest call of the journey returns or raises.  An exception is fed as
\* a failure of functional and ends the journey: sim_inflight_tests.add(-1).
JourneyIngest(j) ==
    /\ jPc[j] = "ingest"
    /\ jIngestCalls' = [jIngestCalls EXCEPT ![j] = @ + 1]
    /\ \E outcome \in Outcomes :
        /\ Request("ingest-api", "/ingest", outcome, "none")
        /\ IF outcome = "response"
           THEN /\ jPc' = [jPc EXCEPT ![j] = "poll"]
                /\ NoFeed
                /\ UNCHANGED <<jObs, sim_inflight_tests>>
           ELSE /\ Feed("functional", TRUE)
                /\ jObs' = [jObs EXCEPT ![j] = Append(@, <<"functional", TRUE>>)]
                /\ jPc' = [jPc EXCEPT ![j] = "done"]
                /\ sim_inflight_tests' = sim_inflight_tests - 1
    /\ UNCHANGED <<pipeVars, lockVars, mainVars, polls, healthVars>>

\* Variant of the poll in which a failed poll is fed as a failure.
PollFeedsFailure(outcome, status) ==
    IF outcome = "response" /\ status = "processed" THEN << FALSE >>
    ELSE IF outcome # "response" THEN << TRUE >>
    ELSE << >>

\* The observations (is_down) fed after one status poll.
PollFeeds(outcome, status) ==
    IF outcome = "response" /\ status = "processed" THEN << FALSE >> ELSE << >>

\* One status poll before the deadline.  The status processed is fed as a
\* success and ends the journey; otherwise the journey sleeps and polls again.
JourneyPoll(j) ==
    /\ jPc[j] = "poll" /\ polls[j] < MaxPolls
    /\ \E outcome \in Outcomes, status \in Statuses :
        LET fed == PollFeeds(outcome, status)
        IN /\ Request("query-api", "/status/{event_id}", outcome, status)
           /\ IF fed = << >>
              THEN NoFeed /\ UNCHANGED jObs
              ELSE /\ Feed("functional", fed[1])
                   /\ jObs' = [jObs EXCEPT ![j] = Append(@, <<"functional", fed[1]>>)]
           /\ IF fed = << FALSE >>
              THEN /\ jPc' = [jPc EXCEPT ![j] = "done"]
                   /\ sim_inflight_tests' = sim_inflight_tests - 1
                   /\ UNCHANGED polls
              ELSE /\ polls' = [polls EXCEPT ![j] = @ + 1]
                   /\ UNCHANGED <<jPc, sim_inflight_tests>>
    /\ UNCHANGED <<pipeVars, lockVars, mainVars, jIngestCalls, healthVars>>

\* time.time() < poll_deadline is false: the journey is fed as a failure of
\* functional and ends.
JourneyTimeout(j) ==
    /\ jPc[j] = "poll"
    /\ Feed("functional", TRUE)
    /\ jObs' = [jObs EXCEPT ![j] = Append(@, <<"functional", TRUE>>)]
    /\ jPc' = [jPc EXCEPT ![j] = "done"]
    /\ sim_inflight_tests' = sim_inflight_tests - 1
    /\ UNCHANGED <<pipeVars, lockVars, mainVars, polls, jIngestCalls, healthVars,
                   reqVars>>

\* The process has ended: its daemon thread runs no more.
ProcessExited == mainPc = "finished"

\* while not stop_event.is_set(), after the sleep of the previous iteration.
HealthLoop ==
    /\ healthPc = "check" /\ ~ProcessExited
    /\ IF stop_event
       THEN healthPc' = "exit" /\ UNCHANGED healthRounds
       ELSE /\ healthRounds < MaxRounds
            /\ healthRounds' = healthRounds + 1
            /\ healthPc' = "probe_ingest"
    /\ UNCHANGED <<pipeVars, now, simVars, lockVars, mainVars, journeyVars, reqVars,
                   downs>>

\* The probe of one API and the observation it feeds.
HealthProbe ==
    /\ healthPc \in {"probe_ingest", "probe_query"} /\ ~ProcessExited
    /\ \E outcome \in Outcomes :
        LET target == IF healthPc = "probe_ingest" THEN "ingest-api" ELSE "query-api"
        IN /\ Request(target, "/health", outcome, "none")
           /\ Feed(target, outcome # "response")
    /\ healthPc' = IF healthPc = "probe_ingest" THEN "probe_query" ELSE "check"
    /\ UNCHANGED <<pipeVars, lockVars, mainVars, journeyVars, healthRounds>>

MainStep ==
    MainStart \/ MainLoop \/ MainSubmit \/ MainSleep \/ MainStop \/ MainShutdown
    \/ MainFlush

JourneyStep(j) ==
    JourneyStart(j) \/ JourneyIngest(j) \/ JourneyPoll(j) \/ JourneyTimeout(j)

\* One run of the simulator: main, the workers of the executor and the
\* health thread.
NextRun ==
    \/ MainStart \/ MainLoop \/ MainSubmit \/ MainSleep \/ MainStop
    \/ MainShutdown \/ MainFlush
    \/ \E j \in Journeys : JourneyStart(j)
    \/ \E j \in Journeys : JourneyIngest(j)
    \/ \E j \in Journeys : JourneyPoll(j)
    \/ \E j \in Journeys : JourneyTimeout(j)
    \/ HealthLoop \/ HealthProbe

SpecRun == Init /\ [][NextRun]_vars

\* The load of one run: main and the workers of the executor.
NextLoad ==
    \/ MainStart \/ MainLoop \/ MainSubmit \/ MainSleep \/ MainStop
    \/ MainShutdown \/ MainFlush
    \/ \E j \in Journeys : JourneyStart(j)
    \/ \E j \in Journeys : JourneyIngest(j)
    \/ \E j \in Journeys : JourneyPoll(j)
    \/ \E j \in Journeys : JourneyTimeout(j)

SpecLoad == Init /\ [][NextLoad]_vars

\* Every call of a journey returns or times out, and main and the workers
\* of the executor are scheduled.
SpecLoadFair ==
    /\ SpecLoad
    /\ WF_vars(MainStep)
    /\ \A j \in Journeys : WF_vars(JourneyStep(j))

(* ---------------------------- specification ---------------------------- *)
\* One process_worker replica, the producer, other writers of the stream,
\* outages of Redis and SQLite, kill and restart of the worker.
Next ==
    \/ RedisFail \/ RedisRecover \/ StoreFail \/ StoreRecover \/ ForeignAppend
    \/ Ingest
    \/ \E p \in Single : Kill(p)
    \/ \E p \in Single : Restart(p)
    \/ \E p \in Single : WorkerBoot(p)
    \/ \E p \in Single : WorkerStart(p)
    \/ \E p \in Single : WorkerRead(p)
    \/ \E p \in Single : WorkerParse(p)
    \/ \E p \in Single : WorkerPersist(p)
    \/ \E p \in Single : WorkerAck(p)
    \/ \E p \in Single : WorkerBackoff(p)

Spec == Init /\ [][Next]_vars

\* The steps of the worker thread of process p that end without exception
\* handling, and all of its steps.
WorkerRun(p) ==
    \/ WorkerBoot(p) \/ WorkerStart(p) \/ WorkerRead(p) \/ WorkerParse(p)
    \/ WorkerPersist(p) \/ WorkerAck(p)
WorkerStep(p) == WorkerRun(p) \/ WorkerBackoff(p)

\* Kill and restart of the worker with both dependencies reachable.  The
\* thread of a running process keeps taking steps and a killed process is
\* restarted.
NextCrash ==
    \/ Ingest \/ GetStatus
    \/ \E p \in Single : Kill(p)
    \/ \E p \in Single : Restart(p)
    \/ \E p \in Single : WorkerBoot(p)
    \/ \E p \in Single : WorkerStart(p)
    \/ \E p \in Single : WorkerRead(p)
    \/ \E p \in Single : WorkerParse(p)
    \/ \E p \in Single : WorkerPersist(p)
    \/ \E p \in Single : WorkerAck(p)

SpecCrash ==
    /\ Init /\ [][NextCrash]_vars
    /\ \A p \in Single : WF_vars(WorkerRun(p)) /\ WF_vars(Restart(p))

\* Outages of Redis and SQLite that end, no kill, and the query API.
NextFaulty ==
    \/ RedisFail \/ RedisRecover \/ StoreFail \/ StoreRecover
    \/ Ingest \/ GetStatus
    \/ \E p \in Single : Restart(p)
    \/ \E p \in Single : WorkerBoot(p)
    \/ \E p \in Single : WorkerStart(p)
    \/ \E p \in Single : WorkerRead(p)
    \/ \E p \in Single : WorkerParse(p)
    \/ \E p \in Single : WorkerPersist(p)
    \/ \E p \in Single : WorkerAck(p)
    \/ \E p \in Single : WorkerBackoff(p)

SpecFaulty ==
    /\ Init /\ [][NextFaulty]_vars
    /\ WF_vars(RedisRecover) /\ WF_vars(StoreRecover)
    /\ \A p \in Single : WF_vars(WorkerStep(p)) /\ WF_vars(Restart(p))

\* Both dependencies stay reachable and the worker keeps running.
NextLive ==
    \/ Ingest \/ GetStatus
    \/ \E p \in Single : WorkerBoot(p)
    \/ \E p \in Single : WorkerStart(p)
    \/ \E p \in Single : WorkerRead(p)
    \/ \E p \in Single : WorkerParse(p)
    \/ \E p \in Single : WorkerPersist(p)
    \/ \E p \in Single : WorkerAck(p)

SpecLive ==
    /\ Init /\ [][NextLive]_vars
    /\ \A p \in Single : WF_vars(WorkerRun(p))

\* Scale-out: two processes read under the same group name.  No process is
\* killed; an outage of the store ends.
NextScale ==
    \/ StoreFail \/ StoreRecover
    \/ Ingest
    \/ \E p \in Procs : Restart(p)
    \/ \E p \in Procs : WorkerBoot(p)
    \/ \E p \in Procs : WorkerStart(p)
    \/ \E p \in Procs : WorkerRead(p)
    \/ \E p \in Procs : WorkerParse(p)
    \/ \E p \in Procs : WorkerPersist(p)
    \/ \E p \in Procs : WorkerAck(p)
    \/ \E p \in Procs : WorkerBackoff(p)

SpecScale ==
    /\ Init /\ [][NextScale]_vars
    /\ WF_vars(StoreRecover)
    /\ \A p \in Procs : WF_vars(WorkerStep(p)) /\ WF_vars(Restart(p))

\* The table processed_events under deliveries and redeliveries of any
\* event by any worker, with outages of the store and the clock advancing.
NextStore ==
    \/ StoreFail \/ StoreRecover \/ Tick \/ Persist
    \/ \E p \in Procs : WorkerBoot(p)

SpecStore == Init /\ [][NextStore]_vars

(* ------------------------------- claims -------------------------------- *)
\* The event a stream entry carries.
EntryValid(id) == JsonValid(stream[id].data)
EntryEventId(id) == JsonLoads(stream[id].data).event_id

\* ingest_api answered 202 with this event_id: its entry is in the stream.
Accepted(eid) ==
    \E id \in 1..Len(stream) : EntryValid(id) /\ EntryEventId(id) = eid

\* C1: every entry of events_stream that has been acknowledged (xack) has a
\* committed row with its event_id in processed_events, at the acknowledgment
\* and in every later state.
C1_AckAfterPersist ==
    \A id \in acked : EntryValid(id) /\ HasRow(store, EntryEventId(id))

\* An entry was acknowledged by a worker that had gone through its
\* exception handler before.
C1_Witness ==
    /\ acked # {}
    /\ \E p \in Procs : worker_loop_errors[p] > 0

\* C2: an entry that is pending (delivered, not acknowledged) when its
\* consumer process is killed is delivered again after the restart and its
\* event is persisted: eventually the store holds the row of its event_id.
C2_RedeliveredAfterKill ==
    \A id \in 1..MaxEvents :
        (\E e \in pending : e.id = id /\ pc[e.consumer] = "down")
            ~> (id <= Len(stream) /\ HasRow(store, EntryEventId(id)))

\* C4: in a run without a process kill, every entry delivered to the
\* Processor is eventually persisted and acknowledged, also when steps of
\* the iteration raise during an outage that ends.
C4_NoWorkLostWithoutKill ==
    \A id \in 1..MaxEvents :
        (id <= lastDelivered)
            ~> (id <= Len(stream) /\ HasRow(store, EntryEventId(id)) /\ id \in acked)

\* The step of the iteration at which the worker stands raises.
Raises(p) ==
    \/ pc[p] = "read" /\ ~redisUp
    \/ pc[p] = "parse" /\ ~JsonValid(msg[p].data)
    \/ pc[p] = "persist" /\ ~StoreWritable
    \/ pc[p] = "ack" /\ ~redisUp

InLoop == {"read", "parse", "persist", "ack", "backoff"}

\* C5: once the worker is in its read loop only a kill takes it out of the
\* loop; a step that raises increments worker.loop.errors by exactly one and
\* leads to the backoff, no other step changes the counter, and the backoff
\* ends at the blocking read.
C5_NeverDie ==
    [][\A p \in Procs :
        (pc[p] \in InLoop /\ pc'[p] # "down") =>
            /\ pc'[p] \in InLoop
            /\ IF pc'[p] # pc[p] /\ Raises(p)
               THEN /\ pc'[p] = "backoff"
                    /\ worker_loop_errors'[p] = worker_loop_errors[p] + 1
               ELSE worker_loop_errors'[p] = worker_loop_errors[p]
            /\ (pc[p] = "backoff" /\ pc'[p] # "backoff" => pc'[p] = "read")]_vars

\* The worker is back at the blocking read after an exception.
C5_Witness ==
    \E p \in Procs : pc[p] = "read" /\ worker_loop_errors[p] > 0

\* C6: a call of ingest that answers 202 has appended exactly one entry,
\* whose payload carries the event_id of the answer, and has not touched the
\* store, the group or the worker (the event is not yet processed); a call
\* whose xadd fails answers with a server error, without event_id, and leaves
\* the stream unchanged.
C6_IngestAppendsOne ==
    [][ingestCalls' # ingestCalls =>
        \/ /\ ingestReply'.status = 202
           /\ ingestReply'.event_id \in EventIds
           /\ Len(stream') = Len(stream) + 1
           /\ SubSeq(stream', 1, Len(stream)) = stream
           /\ JsonValid(stream'[Len(stream')].data)
           /\ JsonLoads(stream'[Len(stream')].data).event_id = ingestReply'.event_id
           /\ ~HasRow(store', ingestReply'.event_id)
           /\ UNCHANGED <<store, pending, acked, lastDelivered, pc>>
        \/ /\ ingestReply'.status = 500
           /\ ingestReply'.event_id = 0
           /\ stream' = stream]_vars

\* One call was accepted and a later call failed on an unreachable stream.
C6_Witness ==
    /\ ingestReply.status = 500
    /\ \E eid \in EventIds : Accepted(eid)

\* C3: the store holds at most one row per event_id, and no step changes or
\* deletes a row: a persistence attempt for an event_id that has a row
\* leaves the row as it is.
C3_IdempotentPersistence ==
    [][/\ \A r \in store : r \in store'
       /\ \A r1, r2 \in store' : r1.event_id = r2.event_id => r1 = r2]_vars

\* A persistence attempt for an event_id that already had a row was
\* committed, at a later time than the row's.
C3_Witness ==
    /\ persistLog = "ignored"
    /\ \E r \in store : r.processed_at < now

\* The store cannot be queried: the connection or the select fails.
StoreUnavailable == storeState # "ok" \/ ~tableExists

\* C7: in every state and for every event_id, get_status answers received,
\* processed or unknown and raises nothing: processed when the store is
\* available and has a row of the event_id, received when it is available
\* and has none, unknown exactly when the store is unavailable.
C7_StatusTotal ==
    \A eid \in EventIds :
        /\ get_status(eid) \in {"received", "processed", "unknown"}
        /\ (get_status(eid) = "processed") = (~StoreUnavailable /\ HasRow(store, eid))
        /\ (get_status(eid) = "received") = (~StoreUnavailable /\ ~HasRow(store, eid))
        /\ (get_status(eid) = "unknown") = StoreUnavailable

\* A processor is running: its process has passed init_db and is not down.
Running(p) == pc[p] \in {"start", "read", "parse", "persist", "ack", "backoff"}

\* C8: with the stream and the store reachable and the Processor running,
\* get_status answers received for an accepted event as long as the store
\* has no row of it, and every accepted event is eventually answered
\* processed.
C8_EndToEnd ==
    \A eid \in EventIds :
        /\ []((Accepted(eid) /\ ~HasRow(store, eid) /\ \E p \in Single : Running(p))
                => get_status(eid) = "received")
        /\ (Accepted(eid) ~> (get_status(eid) = "processed"))

\* The query API answered processed for an accepted event.
C8_Witness ==
    /\ statusReply.status = "processed"
    /\ Accepted(statusReply.event_id)

\* C9: every target starts UP; a failure observation while UP sets the
\* target DOWN with since the time of the call, a success observation while
\* DOWN sets it UP, an observation that repeats the current state changes
\* neither up nor since and emits no measurement; no call touches another
\* target.
C9_Transitions ==
    /\ \A s \in Services : downtime_tracker[s].up
    /\ [][obsCount' # obsCount =>
            LET s == lastObs'.service
                d == lastObs'.is_down
                old == downtime_tracker[s]
                new == downtime_tracker'[s]
            IN /\ (d /\ old.up => new = [up |-> FALSE, since |-> lastObs'.t1])
               /\ (~d /\ ~old.up => new.up)
               /\ (d = ~old.up =>
                      new = old /\ sim_downtime_seconds' = sim_downtime_seconds)
               /\ \A o \in Services \ {s} :
                      downtime_tracker'[o] = downtime_tracker[o]]_vars

\* A target is DOWN since a time after the start, after an observation that
\* repeated the DOWN state.
C9_Witness ==
    /\ lastObs.is_down
    /\ ~downtime_tracker[lastObs.service].up
    /\ downtime_tracker[lastObs.service].since > 0
    /\ lastObs.t1 > downtime_tracker[lastObs.service].since

\* C10: a success observation of a DOWN target adds one measurement to
\* sim.downtime.seconds, whose duration is the time of this call minus the
\* time of the target's preceding UP to DOWN transition, tagged with the
\* target and with functional_fail for functional and health_fail for the
\* other targets, and sets since to the time read after it.
C10_Duration ==
    [][(obsCount' # obsCount /\ ~lastObs'.is_down
            /\ ~downtime_tracker[lastObs'.service].up) =>
            LET s == lastObs'.service IN
            /\ sim_downtime_seconds' = Append(sim_downtime_seconds,
                   [target_service |-> s,
                    reason |-> IF s = "functional" THEN "functional_fail"
                               ELSE "health_fail",
                    duration |-> lastObs'.t1 - lastDown[s]])
            /\ downtime_tracker'[s].since = lastObs'.t2
            /\ lastObs'.t2 >= lastObs'.t1]_vars

\* A measurement of a positive duration was emitted for a probe target and
\* one for functional.
C10_Witness ==
    /\ \E i \in 1..Len(sim_downtime_seconds) :
           /\ sim_downtime_seconds[i].target_service = "functional"
           /\ sim_downtime_seconds[i].duration > 0
    /\ \E i \in 1..Len(sim_downtime_seconds) :
           /\ sim_downtime_seconds[i].target_service # "functional"
           /\ sim_downtime_seconds[i].reason = "health_fail"


\* Samples of sim.downtime.seconds emitted for one target.
SamplesOf(s) == SelectSeq(sim_downtime_seconds, LAMBDA x : x.target_service = s)

\* C11: under every interleaving of the threads that call record_downtime,
\* the samples emitted for a target are as many as its completed DOWN to UP
\* cycles: none is emitted twice for one cycle, none is lost.
C11_OneSamplePerCycle ==
    \A s \in Services : Len(SamplesOf(s)) = upCycles[s]

\* A cycle of functional is complete while a worker is inside record_downtime
\* and the other one has made a call as well.
C11_Witness ==
    /\ upCycles["functional"] >= 1
    /\ downtime_lock = "worker2"
    /\ rdArg["worker1"].service = "functional"



\* Number of ingest calls issued by the journeys so far.
RECURSIVE SumCalls(_)
SumCalls(n) == IF n = 0 THEN 0 ELSE jIngestCalls[n] + SumCalls(n - 1)

IngestCallsIssued == SumCalls(SIM_INGEST_RPS * SIM_DURATION_SECONDS)

Flushing == {"flush_ingest", "flush_query", "flush_functional"}

\* C12: once main has made its final flush and has finished, every target is
\* UP and every UP to DOWN transition of the run is matched by exactly one
\* downtime sample.
C12_ShutdownFlush ==
    mainPc = "finished" =>
        \A s \in Services :
            /\ downtime_tracker[s].up
            /\ downs[s] = Len(SamplesOf(s))

\* C13: every iteration of the generator loop submits SIM_INGEST_RPS
\* journeys, every journey issues one ingest call, and when the run has
\* ended the ingest calls issued are SIM_INGEST_RPS * SIM_DURATION_SECONDS,
\* give or take the calls of one iteration.
C13_LoadGeneration ==
    /\ Cardinality(Submitted) =
           SIM_INGEST_RPS * iterations + (IF mainPc = "submit" THEN submitI ELSE 0)
    /\ \A j \in Journeys :
           jIngestCalls[j] = IF jPc[j] \in {"poll", "done"} THEN 1 ELSE 0
    /\ mainPc = "finished" =>
           /\ IngestCallsIssued >= SIM_INGEST_RPS * SIM_DURATION_SECONDS - SIM_INGEST_RPS
           /\ IngestCallsIssued <= SIM_INGEST_RPS * SIM_DURATION_SECONDS + SIM_INGEST_RPS


\* The readiness check of process_worker p, respectively of query_api, is
\* answered in this step.
WorkerChecked(p) == workerReadyReply'[p].seq # workerReadyReply[p].seq
QueryChecked == queryReadyReply'.seq # queryReadyReply.seq

\* C14 as stated: a readiness check made while the store is unreachable
\* returns 503 with the reason of the store, and one made while the store is
\* reachable (the first one after an outage included) returns 200, for
\* process_worker and for query_api.
C14_ReadinessFollowsStore ==
    [][/\ \A p \in Single : WorkerChecked(p) =>
              /\ storeState = "unavailable" =>
                     /\ workerReadyReply'[p].code = 503
                     /\ workerReadyReply'[p].details = "Database not reachable"
              /\ storeState = "ok" => workerReadyReply'[p].code = 200
       /\ QueryChecked =>
              /\ storeState = "unavailable" =>
                     /\ queryReadyReply'.code = 503
                     /\ queryReadyReply'.details = "Database not reachable"
              /\ storeState = "ok" => queryReadyReply'.code = 200]_vars

\* C14, amended: as above, but the readiness check of query_api made while
\* the store is reachable returns 200 only if Redis is reachable as well, and
\* 503 with the reason of Redis otherwise.
C14_ReadinessFollowsDependencies ==
    [][/\ \A p \in Single : WorkerChecked(p) =>
              /\ storeState = "unavailable" =>
                     /\ workerReadyReply'[p].code = 503
                     /\ workerReadyReply'[p].details = "Database not reachable"
              /\ storeState = "ok" => workerReadyReply'[p].code = 200
       /\ QueryChecked =>
              /\ storeState = "unavailable" =>
                     /\ queryReadyReply'.code = 503
                     /\ queryReadyReply'.details = "Database not reachable"
              /\ (storeState = "ok" /\ redisUp) => queryReadyReply'.code = 200
              /\ (storeState = "ok" /\ ~redisUp) =>
                     /\ queryReadyReply'.code = 503
                     /\ queryReadyReply'.details = "Redis not reachable"]_vars

\* Both services have answered 503 for the store and then 200.
C14_Witness ==
    /\ queryReadyReply.prev = "Database not reachable"
    /\ queryReadyReply.code = 200
    /\ workerReadyReply["w1"].prev = "Database not reachable"
    /\ workerReadyReply["w1"].code = 200


\* C15: the creation of the consumer group at the start of the Processor is
\* idempotent.  With Redis reachable the Processor enters its read loop,
\* whether it has created the group or the group existed (which is left as
\* it is); when the creation fails for another reason the Processor does not
\* enter the loop, and from then on it delivers, persists and acknowledges
\* nothing.
C15_GroupCreation ==
    [][\A p \in Single :
        /\ (pc[p] = "start" /\ pc'[p] \notin {"start", "down"}) =>
               IF redisUp
               THEN /\ pc'[p] = "read"
                    /\ groupExists'
                    /\ groupExists => lastDelivered' = lastDelivered
               ELSE pc'[p] = "dead"
        /\ pc[p] = "dead" =>
               /\ pc'[p] \in {"dead", "down"}
               /\ UNCHANGED <<lastDelivered, pending, acked, store>>]_vars

\* The Processor has been restarted and is in its read loop, with an entry
\* pending that was delivered before the kill: the group existed at the
\* restart.
C15_Witness ==
    /\ kills = 1
    /\ pc["w1"] = "read"
    /\ worker_loop_errors["w1"] = 0
    /\ pending # {}
    /\ msg["w1"] = NoMsg


RowsOf(eid) == {r \in store : r.event_id = eid}

\* C16: with several Processors under the same group name and no kill, an
\* entry is delivered to one Processor only (a delivery is of an entry that
\* no Processor has been given before, and at most one Processor holds it),
\* the store never has two rows of one event, and every appended event ends
\* with its row.
C16_ScaleOut ==
    /\ [][\A p \in Procs :
            (msg'[p].id # 0 /\ msg'[p].id # msg[p].id) =>
                /\ msg'[p].id > lastDelivered
                /\ \A q \in Procs \ {p} : msg'[q].id # msg'[p].id]_vars
    /\ \A eid \in EventIds :
        /\ [](Cardinality(RowsOf(eid)) <= 1)
        /\ Accepted(eid) ~> (Cardinality(RowsOf(eid)) = 1)


\* A request of the run is counted in this step, and it raised.
RequestFailed == reqCount' # reqCount /\ lastRequest'.raised

\* No thread is lost in this step: main is where it was, the health thread
\* has not ended and every journey that is not in flight has left through
\* its finally.
RunGoesOn ==
    /\ mainPc' = mainPc
    /\ healthPc' = "exit" => healthPc = "exit"
    /\ sim_inflight_tests' = Cardinality({j \in Journeys : jPc'[j] \in {"ingest", "poll"}})

\* C17 as stated: every failed outbound call of the simulator (ingest call,
\* status poll, health probe) is counted under result timeout or error and
\* is fed as a failure observation, and the run goes on.
C17_FailuresFed ==
    [][RequestFailed =>
          /\ lastRequest'.result \in {"timeout", "error"}
          /\ obsCount' = obsCount + 1
          /\ lastObs'.is_down
          /\ RunGoesOn]_vars

\* C17, amended: every failed outbound call is counted under result timeout
\* or error and the run goes on; a failed ingest call is fed as a failure of
\* functional and a failed health probe as a failure of the probed target; a
\* failed status poll feeds no observation and the journey keeps polling.
C17_FailuresCounted ==
    [][RequestFailed =>
          /\ lastRequest'.result \in {"timeout", "error"}
          /\ RunGoesOn
          /\ IF lastRequest'.endpoint = "/status/{event_id}"
             THEN /\ obsCount' = obsCount
                  /\ jPc' = jPc /\ jObs' = jObs
                  /\ downtime_tracker' = downtime_tracker
             ELSE /\ obsCount' = obsCount + 1
                  /\ lastObs'.is_down
                  /\ lastObs'.service = IF lastRequest'.endpoint = "/ingest"
                                        THEN "functional"
                                        ELSE lastRequest'.target_service]_vars

\* The last request was a status poll that raised; its journey has fed
\* nothing and polls on.
C17_Witness ==
    /\ lastRequest.raised
    /\ lastRequest.endpoint = "/status/{event_id}"
    /\ \E j \in Journeys : jPc[j] = "poll" /\ polls[j] >= 1 /\ jObs[j] = << >>

\* C18: a journey feeds one observation, to functional, when it ends, and
\* none before and none to another target: a success when a poll has
\* returned processed, a failure when its ingest call has raised or the
\* deadline has passed.  A poll that raises or returns another status feeds
\* nothing.
C18_OneObservation ==
    /\ [](\A j \in Journeys :
            /\ Len(jObs[j]) = IF jPc[j] = "done" THEN 1 ELSE 0
            /\ \A i \in 1..Len(jObs[j]) : jObs[j][i][1] = "functional")
    /\ [][\A j \in Journeys :
            /\ jObs'[j] # jObs[j] =>
                 LET o == jObs'[j][Len(jObs'[j])]
                 IN /\ obsCount' = obsCount + 1
                    /\ lastObs'.service = "functional" /\ lastObs'.is_down = o[2]
                    /\ \A s \in Services \ {"functional"} :
                           downtime_tracker'[s] = downtime_tracker[s]
                    /\ ~o[2] <=> /\ jPc[j] = "poll" /\ reqCount' # reqCount
                                 /\ lastRequest'.status = "processed"
                    /\ o[2] <=> \/ jPc[j] = "ingest" /\ lastRequest'.raised
                                \/ jPc[j] = "poll" /\ reqCount' = reqCount
            /\ (polls'[j] # polls[j] \/ (jPc'[j] # jPc[j] /\ jPc'[j] # "done")) =>
                 /\ obsCount' = obsCount
                 /\ downtime_tracker' = downtime_tracker
            /\ polls'[j] # polls[j] => lastRequest'.status # "processed"]_vars

\* One journey has ended with a success and another one with a failure at
\* the deadline, after a poll that did not end it.
C18_Witness ==
    \E j, k \in Journeys :
        /\ jObs[j] = << <<"functional", FALSE>> >>
        /\ jObs[k] = << <<"functional", TRUE>> >>
        /\ polls[k] = MaxPolls

\* C19: the run terminates.  Every submitted journey ends, the generator
\* loop submits only before the end of the simulation and is left once it
\* has passed, and main flushes and finishes only when every submitted
\* journey has ended.
C19_Terminates ==
    /\ <>(mainPc = "finished")
    /\ \A j \in Journeys : (jPc[j] = "queued") ~> (jPc[j] = "done")
    /\ [](mainPc = "submit" => main_time < SIM_DURATION_SECONDS)
    /\ [](mainPc \in {"stop", "shutdown", "finished"} \cup Flushing =>
              main_time >= SIM_DURATION_SECONDS)
    /\ [](mainPc \in {"finished"} \cup Flushing =>
              /\ \A j \in Submitted : jPc[j] = "done"
              /\ Cardinality(Submitted) = SIM_INGEST_RPS * iterations)

\* main has finished a run of SIM_DURATION_SECONDS iterations in which a
\* journey ended at its deadline.
C19_Witness ==
    /\ mainPc = "finished"
    /\ iterations = SIM_DURATION_SECONDS
    /\ \E j \in Journeys : polls[j] = MaxPolls /\ jPc[j] = "done"

\* C20: sim.inflight.tests is the number of journeys in flight, between 0
\* and 2 * SIM_INGEST_RPS; the journeys submitted beyond that are queued; the
\* value is 0 when main has finished.
C20_Inflight ==
    /\ sim_inflight_tests \in 0..(2 * SIM_INGEST_RPS)
    /\ sim_inflight_tests = Cardinality(InFlight)
    /\ Cardinality({j \in Submitted : jPc[j] # "done"}) > 2 * SIM_INGEST_RPS =>
           \E j \in Journeys : jPc[j] = "queued"
    /\ mainPc = "finished" => sim_inflight_tests = 0

\* The pool is full and a journey waits in the queue.
C20_Witness ==
    /\ sim_inflight_tests = 2 * SIM_INGEST_RPS
    /\ \E j \in Journeys : jPc[j] = "queued"


\* C21: the status of an event never regresses.  Once get_status has
\* answered processed for an event_id, every later answer for it is processed
\* or unknown; and processed is answered only for an event_id whose entry
\* ingest_api has appended and whose row a Processor has committed.
C21_StatusNeverRegresses ==
    /\ \A eid \in EventIds :
           [](statusReply = [event_id |-> eid, status |-> "processed"] =>
                 [](statusReply.event_id = eid =>
                        statusReply.status \in {"processed", "unknown"}))
    /\ [](statusReply.status = "processed" =>
              /\ Accepted(statusReply.event_id)
              /\ HasRow(store, statusReply.event_id))


\* C22: after a readiness check of query_api each dependency flag is 1 if
\* and only if its dependency was reachable at the check, whatever the other
\* one: the flag of the database is 1 for a file that opens and 0 for one
\* that cannot be opened, the flag of Redis is 1 exactly when Redis answers.
C22_FlagsFollowDependencies ==
    [][QueryChecked =>
          /\ storeState = "ok" => query_db_dependency_state' = 1
          /\ storeState = "unavailable" => query_db_dependency_state' = 0
          /\ (query_redis_dependency_state' = 1) <=> redisUp]_vars


\* Sum of the durations of a sequence of samples.
RECURSIVE SumDurations(_)
SumDurations(q) == IF q = << >> THEN 0 ELSE Head(q).duration + SumDurations(Tail(q))

\* C23: the downtime intervals of a target do not overlap.  No duration is
\* negative; the durations emitted for a target add up to at most the time
\* since the start of the simulator, and to at most the time up to the
\* beginning of the outage that is open; the since of a target never
\* decreases.
C23_IntervalsDisjoint ==
    /\ [](\A s \in Services :
            /\ \A i \in 1..Len(SamplesOf(s)) : SamplesOf(s)[i].duration >= 0
            /\ SumDurations(SamplesOf(s)) <= now
            /\ ~downtime_tracker[s].up =>
                   SumDurations(SamplesOf(s)) <= downtime_tracker[s].since)
    /\ [][\A s \in Services :
            downtime_tracker'[s].since >= downtime_tracker[s].since]_vars

\* Two outages of functional have been measured, each of them one unit long.
C23_Witness ==
    /\ Len(SamplesOf("functional")) = 2
    /\ \A i \in 1..2 : SamplesOf("functional")[i].duration = 1

=============================================================================
